---- MODULE Spec2Model ----
(***************************************************************************)
(* The update checker of geobuild (src/src/build.py): Build.check_for_     *)
(* updates, its worker do_fetch, the two GitHub resolvers and the          *)
(* self-version probe _make_self_dependency.                               *)
(*                                                                         *)
(* Python strings are sequences of one-character strings.  The main thread *)
(* of a check_for_updates call and every worker Thread are processes; a    *)
(* worker takes two steps (the HTTP request, then the handling of the      *)
(* response and its prints), the main thread one step per t.start() and    *)
(* per t.join().                                                           *)
(***************************************************************************)
EXTENDS Integers, Sequences, FiniteSets, TLC

VARIABLES
    requests,        \* the module-level name `requests`: TRUE iff the import succeeded
    cmake_file,      \* project_dir / "CMakeLists.txt": [exists, text]
    checked_updates, \* Build.checked_updates
    deps,            \* Build._cmake.deps
    pc,              \* position of the main thread
    idx,             \* position in the start / join list comprehension
    threads,         \* the local list `threads` of the running call
    self_dep,        \* what _make_self_dependency returned to the running / last call
    out,             \* standard output, one record per printed line
    net,             \* every requests.get issued so far
    calls,           \* one record per check_for_updates call made so far
    finalized,       \* Build.finalized
    do_check,        \* truthy(GEOBUILD_UPDATE_CHECK), as finalize computes it
    now,             \* time.time(), in seconds
    stamp,           \* build_dir / "_geobuild-last-update.txt": [exists, mtime, touched]
    caller,          \* who called the running check_for_updates: "direct" or "finalize"
    finlog           \* one record per finalize call made so far

\* what only finalize and the clock change
fin == <<finalized, do_check, now, stamp, finlog>>

vars == <<requests, cmake_file, checked_updates, deps, pc, idx, threads, self_dep, out, net, calls,
          finalized, do_check, now, stamp, caller, finlog>>

----------------------------------------------------------------------------
(* Bounds *)

MaxDeps == 1

MaxCalls == 2

MaxLen == 2

MaxSuffix == 4

MaxSlack == 2

MaxFinalize == 2

----------------------------------------------------------------------------
(* Strings *)

Str(S, n) == UNION {[1..k -> S] : k \in 0..n}

Min(a, b) == IF a < b THEN a ELSE b

\* c in s
Contains(s, c) == \E i \in 1..Len(s) : s[i] = c

\* s[:n]
Prefix(s, n) == SubSeq(s, 1, Min(n, Len(s)))

\* s[n:], n counted from 0
Suffix(s, n) == IF n >= Len(s) THEN <<>> ELSE SubSeq(s, n + 1, Len(s))

\* pat in s
HasSub(s, pat) == \E i \in 0..(Len(s) - Len(pat)) : SubSeq(s, i + 1, i + Len(pat)) = pat

\* s.index(pat), counted from 0; used only when pat in s
Index(s, pat) ==
    CHOOSE i \in 0..(Len(s) - Len(pat)) :
        /\ SubSeq(s, i + 1, i + Len(pat)) = pat
        /\ \A j \in 0..(i - 1) : SubSeq(s, j + 1, j + Len(pat)) # pat

\* s.partition(sep)[0] for a one-character sep
PartitionHead(s, sep) ==
    IF Contains(s, sep)
    THEN LET k == CHOOSE i \in 1..Len(s) : s[i] = sep /\ \A j \in 1..(i - 1) : s[j] # sep
         IN  SubSeq(s, 1, k - 1)
    ELSE s

Whitespace == {" ", "\n"}

\* s.strip()
Strip(s) ==
    LET keep == {i \in 1..Len(s) : s[i] \notin Whitespace}
    IN  IF keep = {} THEN <<>>
        ELSE LET lo == CHOOSE i \in keep : \A j \in keep : i <= j
                 hi == CHOOSE i \in keep : \A j \in keep : j <= i
             IN  SubSeq(s, lo, hi)

----------------------------------------------------------------------------
(* Values *)

None == [some |-> FALSE, v |-> <<>>]

Some(s) == [some |-> TRUE, v |-> s]

\* Python truthiness of a str | None
Truthy(o) == o.some /\ o.v # <<>>

CPMDep(name, repo, tag) == [name |-> name, repo |-> repo, tag |-> tag]

NoDep == [some |-> FALSE, dep |-> CPMDep("", "", <<>>)]

SomeDep(d) == [some |-> TRUE, dep |-> d]

\* one printed line; `by` is the worker that printed it, 0 for the main thread
Line(kind, by, what, current, latest) ==
    [kind |-> kind, by |-> by, what |-> what, current |-> current, latest |-> latest]

----------------------------------------------------------------------------
(* Remote Version Resolver: _gh_request, get_last_gh_release,              *)
(* get_last_gh_commit.  A response is what requests.get(url) produces:     *)
(*   transport_error  requests.get raises (no connection, DNS, ...)        *)
(*   http_error       a response with r.ok false                           *)
(*   not_json         r.ok, and r.json() raises                            *)
(*   object           r.ok, a JSON value that is not a list                *)
(*   empty            r.ok, the empty list                                 *)
(*   no_field         r.ok, a list whose first element lacks the field     *)
(*   value            r.ok, a list whose first element has the field = v   *)
(***************************************************************************)

Resp(kind, v) == [kind |-> kind, v |-> v]

RespKinds == {"transport_error", "http_error", "not_json", "object", "empty", "no_field"}

\* the responses whose first element carries one of the strings of V
ResponsesOver(V) == {Resp(k, <<>>) : k \in RespKinds} \cup {Resp("value", v) : v \in V}

\* repo.replace(".git", "").replace("github.com", "api.github.com/repos") + "/" + endpoint
Url(repo, endpoint) == [repo |-> repo, endpoint |-> endpoint]

\* the outcome of a call: the exception flag, the returned value, the lines printed
Outcome(raised, val, lines) == [raised |-> raised, val |-> val, lines |-> lines]

\* _gh_request: val is the parsed JSON (the response itself) or None (kind "none")
gh_request(url, resp, by) ==
    IF resp.kind = "transport_error" THEN Outcome(TRUE, Resp("none", <<>>), <<>>)
    ELSE IF resp.kind = "http_error"
    THEN Outcome(FALSE, Resp("none", <<>>), <<Line("request_failed", by, url.repo, <<>>, <<>>)>>)
    ELSE IF resp.kind = "not_json" THEN Outcome(TRUE, Resp("none", <<>>), <<>>)
    ELSE Outcome(FALSE, resp, <<>>)

\* isinstance(x, list) and len(x) != 0
IsNonEmptyList(json) == json.kind \in {"no_field", "value"}

\* the body shared by get_last_gh_release ("tags", "no_tags") and
\* get_last_gh_commit ("commits", "no_commits")
get_last(repo, endpoint, nothing, resp, by) ==
    LET r == gh_request(Url(repo, endpoint), resp, by)
    IN  IF r.raised THEN Outcome(TRUE, None, r.lines)
        ELSE IF ~IsNonEmptyList(r.val)
        THEN Outcome(FALSE, None, Append(r.lines, Line(nothing, by, repo, <<>>, <<>>)))
        ELSE IF r.val.kind = "no_field" THEN Outcome(TRUE, None, r.lines)
        ELSE Outcome(FALSE, Some(r.val.v), r.lines)

get_last_gh_release(repo, resp, by) == get_last(repo, "tags", "no_tags", resp, by)

get_last_gh_commit(repo, resp, by) == get_last(repo, "commits", "no_commits", resp, by)

----------------------------------------------------------------------------
(* The worker: do_fetch *)

use_tag_dot_only(dep) == Contains(dep.tag, ".")

use_tag(dep) == Contains(dep.tag, ".") \/ Contains(dep.tag, "v")

\* the endpoint the worker's single request goes to
Endpoint(dep) == IF use_tag(dep) THEN "tags" ELSE "commits"

TruthyNone(o) == TRUE

\* `not tag` / `not commit` is ~Fetched(o)
Fetched(o) == Truthy(o)

shortest_len_pin(dep, commit) == Len(dep.tag)

shortest_len(dep, commit) == Min(Len(dep.tag), Len(commit))

tag_pair_truncated(dep, tag) ==
    <<Prefix(dep.tag, Min(Len(dep.tag), Len(tag))), Prefix(tag, Min(Len(dep.tag), Len(tag)))>>

\* current, latest = dep.tag, tag
tag_pair(dep, tag) == <<dep.tag, tag>>

\* current, latest = dep.tag[:shortest_len], commit[:shortest_len]
commit_pair(dep, commit) ==
    <<Prefix(dep.tag, shortest_len(dep, commit)), Prefix(commit, shortest_len(dep, commit))>>

\* the final if / else of do_fetch
report(dep, pair, by) ==
    IF pair[1] # pair[2]
    THEN Line("update", by, dep.name, pair[1], pair[2])
    ELSE Line("up_to_date", by, dep.name, <<>>, pair[2])

do_fetch(dep, resp, by) ==
    IF use_tag(dep)
    THEN LET r == get_last_gh_release(dep.repo, resp, by)
         IN  IF r.raised THEN Outcome(TRUE, None, r.lines)
             ELSE IF ~Fetched(r.val)
             THEN Outcome(FALSE, None,
                          Append(r.lines, Line("failed_release", by, dep.repo, <<>>, <<>>)))
             ELSE Outcome(FALSE, None, Append(r.lines, report(dep, tag_pair(dep, r.val.v), by)))
    ELSE LET r == get_last_gh_commit(dep.repo, resp, by)
         IN  IF r.raised THEN Outcome(TRUE, None, r.lines)
             ELSE IF ~Fetched(r.val)
             THEN Outcome(FALSE, None,
                          Append(r.lines, Line("failed_commit", by, dep.repo, <<>>, <<>>)))
             ELSE Outcome(FALSE, None,
                          Append(r.lines, report(dep, commit_pair(dep, r.val.v), by)))

----------------------------------------------------------------------------
(* Self-Version Probe: _make_self_dependency *)

Marker == <<"d","a","n","k","m","e","m","e","0","1","/","g","e","o","b","u","i","l","d">>

GeobuildRepo == "https://github.com/dankmeme01/geobuild"

\* the text after the marker, the character that follows it included
remainder_unskipped(cmake) == Suffix(cmake, Index(cmake, Marker) + Len(Marker))

\* cmake[cmake.index(marker) + len(marker) + 1:]
remainder(cmake) == Suffix(cmake, Index(cmake, Marker) + Len(Marker) + 1)

version_unstripped(cmake) ==
    IF HasSub(cmake, Marker)
    THEN LET ver == PartitionHead(remainder(cmake), "\"")
         IN  IF ver # <<>> THEN Some(ver) ELSE None
    ELSE None

\* the value of `version` at line 328: None, or ver.strip() for a non-empty ver
version(cmake) ==
    IF HasSub(cmake, Marker)
    THEN LET ver == PartitionHead(remainder(cmake), "\"")
         IN  IF ver # <<>> THEN Some(Strip(ver)) ELSE None
    ELSE None

\* the result for a CMakeLists.txt that read_text() could read
make_self_dependency(cmake) ==
    IF ~Truthy(version(cmake)) THEN NoDep
    ELSE SomeDep(CPMDep("geobuild", GeobuildRepo, version(cmake).v))

----------------------------------------------------------------------------
(* The Build object and the threads of a check_for_updates call *)

\* the last-update file: `touched` counts the p.touch calls of this process
Stamp(exists, mtime, touched) == [exists |-> exists, mtime |-> mtime, touched |-> touched]

NoStamp == Stamp(FALSE, 0, 0)

\* p.touch(exist_ok=True) at time t
Touch(st, t) == Stamp(TRUE, t, st.touched + 1)

\* 60 * 60 * 24
Cooldown == 60 * 60 * 24

ExpiredAlways(st, t) == TRUE

\* not p.exists() or (time.time() - p.stat().st_mtime) > 60 * 60 * 24
Expired(st, t) == ~st.exists \/ (t - st.mtime) > Cooldown

TouchAfterAny(who, ret) == who = "finalize"

\* `if self.check_for_updates(): p.touch(...)`: only finalize touches, and only on True
TouchAfter(who, ret) == who = "finalize" /\ ret

\* a Thread: its args, its position, and the response its request received
\*   created   Thread(...) built, not started
\*   started   t.start() done, do_fetch not yet at its request
\*   fetched   requests.get has answered (or raised)
\*   done      do_fetch returned
\*   raised    do_fetch ended by an exception (the thread is dead all the same)
NewThread(dep) == [dep |-> dep, st |-> "created", resp |-> Resp("none", <<>>)]

JoinableAlways(t) == TRUE

\* t.join() returns once the thread has terminated
Joinable(t) == t.st \in {"done", "raised"}

AlreadyCheckedNever == FALSE

\* if self.checked_updates
AlreadyChecked == checked_updates

RequestsAssumed == TRUE

\* `requests`, as tested by `if not requests`
RequestsAvailable == requests

FlagLeftUnset == FALSE

\* the value of self.checked_updates = True
FlagSet == TRUE

\* threads after the loop over self._cmake.deps and the self-dependency
MakeThreads(ds, sd) ==
    [i \in 1..Len(ds) |-> NewThread(ds[i])] \o (IF sd.some THEN <<NewThread(sd.dep)>> ELSE <<>>)

\* the record of one call: its outcome so far, how many declared dependencies it
\* found, how many threads it has started
Call(ret) == [ret |-> ret, ndeps |-> Len(deps), started |-> 0]

\* Build.__init__ in an environment (whether `import requests` worked, what
\* CMakeLists.txt holds), followed by the add_cpm_dep calls of one of DepLists
InitWith(Files, DepLists) ==
    /\ requests \in BOOLEAN
    /\ cmake_file \in Files
    /\ checked_updates = FALSE
    /\ deps \in DepLists
    /\ pc = "idle"
    /\ idx = 1
    /\ threads = <<>>
    /\ self_dep = NoDep
    /\ out = <<>>
    /\ net = <<>>
    /\ calls = <<>>
    /\ finalized = FALSE
    /\ caller = "direct"
    /\ finlog = <<>>
    /\ now = 0
    /\ do_check = FALSE
    /\ stamp = NoStamp

\* add_cpm_dep with a full repository URL and an explicit name
add_cpm_dep(repo, tag, name) ==
    /\ pc = "idle"
    /\ Len(deps) < MaxDeps
    /\ deps' = Append(deps, CPMDep(name, repo, tag))
    /\ UNCHANGED <<requests, cmake_file, checked_updates, pc, idx, threads, self_dep, out, net, calls>>
    /\ UNCHANGED <<fin, caller>>

\* check_for_updates, from its entry to the first t.start() (or to its return,
\* or to the exception of read_text()); what it does to the state of the check
CheckEntry ==
    /\ UNCHANGED <<requests, cmake_file, deps, net>>
    /\ IF ~RequestsAvailable
       THEN /\ out' = Append(out, Line("warn", 0, "", <<>>, <<>>))
            /\ calls' = Append(calls, Call("false"))
            /\ UNCHANGED <<checked_updates, pc, idx, threads, self_dep>>
       ELSE IF AlreadyChecked
       THEN /\ calls' = Append(calls, Call("false"))
            /\ UNCHANGED <<checked_updates, pc, idx, threads, self_dep, out>>
       ELSE /\ checked_updates' = FlagSet
            /\ out' = Append(out, Line("checking", 0, "", <<>>, <<>>))
            /\ idx' = 1
            /\ IF ~cmake_file.exists
               THEN /\ threads' = MakeThreads(deps, NoDep)
                    /\ self_dep' = NoDep
                    /\ calls' = Append(calls, Call("raised"))
                    /\ pc' = "idle"
               ELSE /\ self_dep' = make_self_dependency(cmake_file.text)
                    /\ threads' = MakeThreads(deps, self_dep')
                    /\ calls' = Append(calls, Call("running"))
                    /\ pc' = IF threads' = <<>> THEN "join" ELSE "start"

\* check_for_updates called by the build script itself
check_for_updates ==
    /\ pc = "idle"
    /\ Len(calls) < MaxCalls
    /\ CheckEntry
    /\ caller' = "direct"
    /\ UNCHANGED fin

\* one t.start() of [t.start() for t in threads]
StartThread ==
    /\ pc = "start"
    /\ idx <= Len(threads)
    /\ threads' = [threads EXCEPT ![idx].st = "started"]
    /\ calls' = [calls EXCEPT ![Len(calls)].started = @ + 1]
    /\ IF idx = Len(threads) THEN pc' = "join" /\ idx' = 1 ELSE pc' = pc /\ idx' = idx + 1
    /\ UNCHANGED <<requests, cmake_file, checked_updates, deps, self_dep, out, net>>
    /\ UNCHANGED <<fin, caller>>

\* one t.join() of [t.join() for t in threads]
JoinThread ==
    /\ pc = "join"
    /\ idx <= Len(threads)
    /\ Joinable(threads[idx])
    /\ idx' = idx + 1
    /\ UNCHANGED <<requests, cmake_file, checked_updates, deps, pc, threads, self_dep, out, net, calls>>
    /\ UNCHANGED <<fin, caller>>

\* the elapsed-time print and `return True`; back in finalize, p.touch(exist_ok=True)
Return ==
    /\ pc = "join"
    /\ idx > Len(threads)
    /\ out' = Append(out, Line("complete", 0, "", <<>>, <<>>))
    /\ calls' = [calls EXCEPT ![Len(calls)].ret = "true"]
    /\ pc' = "idle"
    /\ stamp' = IF TouchAfter(caller, TRUE) THEN Touch(stamp, now) ELSE stamp
    /\ UNCHANGED <<requests, cmake_file, checked_updates, deps, idx, threads, self_dep, net>>
    /\ UNCHANGED <<finalized, do_check, now, finlog, caller>>

\* worker i: do_fetch up to the answer of its requests.get
WorkerRequest(i, V) ==
    /\ threads[i].st = "started"
    /\ \E resp \in ResponsesOver(V) :
          threads' = [threads EXCEPT ![i].st = "fetched", ![i].resp = resp]
    /\ net' = Append(net, [call |-> Len(calls), by |-> i,
                           url |-> Url(threads[i].dep.repo, Endpoint(threads[i].dep))])
    /\ UNCHANGED <<requests, cmake_file, checked_updates, deps, pc, idx, self_dep, out, calls>>
    /\ UNCHANGED <<fin, caller>>

\* worker i: the rest of do_fetch, its prints included
WorkerFinish(i) ==
    /\ threads[i].st = "fetched"
    /\ LET o == do_fetch(threads[i].dep, threads[i].resp, i)
       IN  /\ out' = out \o o.lines
           /\ threads' = [threads EXCEPT ![i].st = IF o.raised THEN "raised" ELSE "done"]
    /\ UNCHANGED <<requests, cmake_file, checked_updates, deps, pc, idx, self_dep, net, calls>>
    /\ UNCHANGED <<fin, caller>>

\* one finalize call in finlog: whether the Build was not yet finalized, the flag, the
\* last-update file and the time it found, and the check_for_updates call it made (0: none)
FinRec(first, call) ==
    [first |-> first, flag |-> do_check, stamp |-> stamp, at |-> now, call |-> call]

\* finalize, up to the first t.start() of the check it may invoke.  `early` is an
\* exception before line 213 (add_source_dir on a missing src directory, a failed write)
finalize ==
    /\ pc = "idle"
    /\ Len(finlog) < MaxFinalize
    /\ Len(calls) < MaxCalls
    /\ UNCHANGED <<do_check, now>>
    /\ IF finalized
       THEN /\ finlog' = Append(finlog, FinRec(FALSE, 0))
            /\ UNCHANGED <<requests, cmake_file, checked_updates, deps, pc, idx, threads,
                           self_dep, out, net, calls, finalized, stamp, caller>>
       ELSE /\ finalized' = TRUE
            /\ \E early \in BOOLEAN :
                  IF early \/ ~do_check \/ ~Expired(stamp, now)
                  THEN /\ finlog' = Append(finlog, FinRec(TRUE, 0))
                       /\ UNCHANGED <<requests, cmake_file, checked_updates, deps, pc, idx,
                                      threads, self_dep, out, net, calls, stamp, caller>>
                  ELSE /\ CheckEntry
                       /\ caller' = "finalize"
                       /\ finlog' = Append(finlog, FinRec(TRUE, Len(calls) + 1))
                       /\ stamp' = IF calls'[Len(calls')].ret = "false" /\ TouchAfter("finalize", FALSE)
                                   THEN Touch(stamp, now) ELSE stamp

\* the instants the clock is looked at: up to MaxSlack seconds after time 0 and after
\* one cooldown
Instants == {q * Cooldown + r : q \in 0..1, r \in 0..MaxSlack}

\* the clock
Advance(d) ==
    /\ now + d \in Instants
    /\ now' = now + d
    /\ UNCHANGED <<requests, cmake_file, checked_updates, deps, pc, idx, threads, self_dep, out,
                   net, calls, finalized, do_check, stamp, caller, finlog>>

NextWith(Packages, Pins, V) ==
    \/ \E p \in Packages, tag \in Pins : add_cpm_dep(p.repo, tag, p.name)
    \/ check_for_updates
    \/ StartThread
    \/ JoinThread
    \/ Return
    \/ \E i \in 1..Len(threads) : WorkerRequest(i, V)
    \/ \E i \in 1..Len(threads) : WorkerFinish(i)

----------------------------------------------------------------------------
(* The Build object with a few dependencies *)

Packages == {[name |-> "fmt", repo |-> "https://github.com/fmtlib/fmt.git"]}

Pins == {<<"a", "b">>, <<"v", "1">>, <<"1", ".", "0">>}

Versions == {<<>>, <<"a", "b", "c">>, <<"v", "1">>}

File(text) == [exists |-> TRUE, text |-> text]

NoFile == [exists |-> FALSE, text |-> <<>>]

Files ==
    { NoFile,
      File(<<"p", "r", "o", "j", "e", "c", "t", "(", "x", ")">>),
      File(<<"\"", "g", "h", ":">> \o Marker \o <<"@", "v", "2", ".", "3", ".", "0", "\"", ")">>),
      File(<<"\"", "g", "h", ":">> \o Marker \o <<"#", "a", "b", "\"", ")">>) }

Init == InitWith(Files, {<<>>})

Next == NextWith(Packages, Pins, Versions)

Spec == Init /\ [][Next]_vars

----------------------------------------------------------------------------
(* do_fetch on every pin and every resolved version up to MaxLen: one      *)
(* declared dependency, no self-dependency                                 *)

FetchChars == {"a", "b", "v", "."}

FetchDeps == {<<CPMDep(p.name, p.repo, tag)>> : p \in Packages, tag \in Str(FetchChars, MaxLen)}

InitFetch == InitWith({File(<<"p", "r", "o", "j", "e", "c", "t", "(", "x", ")">>)}, FetchDeps)

NextFetch ==
    \/ check_for_updates
    \/ StartThread
    \/ JoinThread
    \/ Return
    \/ \E i \in 1..Len(threads) : WorkerRequest(i, Str(FetchChars, MaxLen))
    \/ \E i \in 1..Len(threads) : WorkerFinish(i)

SpecFetch == InitFetch /\ [][NextFetch]_vars

----------------------------------------------------------------------------
(* _make_self_dependency on every CMakeLists.txt made of an optional quote, *)
(* the marker or a cut marker, and up to MaxSuffix further characters; no   *)
(* declared dependency                                                     *)

ProbeChars == {"@", "v", "\"", " "}

ProbeFiles ==
    {NoFile} \cup
    {File(pre \o mid \o suf) : pre \in {<<>>, <<"\"">>},
                               mid \in {Marker, SubSeq(Marker, 1, Len(Marker) - 1)},
                               suf \in Str(ProbeChars, MaxSuffix)}

InitProbe == InitWith(ProbeFiles, {<<>>})

NextProbe ==
    \/ check_for_updates
    \/ StartThread
    \/ JoinThread
    \/ Return
    \/ \E i \in 1..Len(threads) : WorkerRequest(i, {<<"v">>})
    \/ \E i \in 1..Len(threads) : WorkerFinish(i)

SpecProbe == InitProbe /\ [][NextProbe]_vars

----------------------------------------------------------------------------
(* finalize and the last-update file: the flag on or off, the file missing or written *)
(* at time 0, no or one declared dependency, and a clock that steps by a second or    *)
(* by the cooldown                                                                    *)

FinalizeFiles ==
    { NoFile,
      File(<<"p", "r", "o", "j", "e", "c", "t", "(", "x", ")">>),
      File(<<"\"", "g", "h", ":">> \o Marker \o <<"@", "v", "1", "\"", ")">>) }

FinalizeDeps == {<<>>} \cup {<<CPMDep(p.name, p.repo, <<"v", "1">>)>> : p \in Packages}

InitFinalize ==
    /\ requests \in BOOLEAN
    /\ cmake_file \in FinalizeFiles
    /\ checked_updates = FALSE
    /\ deps \in FinalizeDeps
    /\ pc = "idle"
    /\ idx = 1
    /\ threads = <<>>
    /\ self_dep = NoDep
    /\ out = <<>>
    /\ net = <<>>
    /\ calls = <<>>
    /\ finalized = FALSE
    /\ caller = "direct"
    /\ finlog = <<>>
    /\ now = 0
    /\ do_check \in BOOLEAN
    /\ stamp \in {NoStamp, Stamp(TRUE, 0, 0)}

NextFinalize ==
    \/ finalize
    \/ check_for_updates
    \/ \E d \in {1, Cooldown} : Advance(d)
    \/ StartThread
    \/ JoinThread
    \/ Return
    \/ \E i \in 1..Len(threads) : WorkerRequest(i, {<<"v", "1">>})
    \/ \E i \in 1..Len(threads) : WorkerFinish(i)

SpecFinalize == InitFinalize /\ [][NextFinalize]_vars

----------------------------------------------------------------------------
(* Properties *)

\* the requests issued during call k
RequestsOf(k) == {n \in 1..Len(net) : net[n].call = k}

\* the requests issued by worker i
RequestsBy(i) == {n \in 1..Len(net) : net[n].by = i}

\* the lines of the given kinds printed by worker i
LinesBy(i, kinds) == {n \in 1..Len(out) : out[n].by = i /\ out[n].kind \in kinds}

Comparisons == {"update", "up_to_date"}

Failures == {"failed_release", "failed_commit"}

Terminated(t) == t.st \in {"done", "raised"}

\* the last call has returned True
ReturnedTrue == calls # <<>> /\ calls[Len(calls)].ret = "true"

\* C1: once a call to check_for_updates has returned True, every later call on the
\* same Build returns False, starts no worker and issues no request.
C1_AtMostOnce ==
    \A i, j \in 1..Len(calls) :
        (i < j /\ calls[i].ret = "true") =>
            /\ calls[j].ret = "false"
            /\ calls[j].started = 0
            /\ RequestsOf(j) = {}

\* a second call, made with a dependency declared, after a first one that ran workers
C1_Witness ==
    /\ Len(calls) >= 2
    /\ calls[1].ret = "true"
    /\ calls[1].started >= 1
    /\ calls[2].ret = "false"
    /\ calls[2].ndeps >= 1

\* C2: check_for_updates returns True only after every worker it started (one per
\* declared dependency, plus one for the self-dependency when there is one) has
\* terminated; no worker is running once it has returned; and the elapsed-time line
\* comes after every line a worker printed.
C2_JoinAll ==
    /\ pc = "idle" => \A i \in 1..Len(threads) : threads[i].st \notin {"started", "fetched"}
    /\ ReturnedTrue =>
          /\ \A i \in 1..Len(threads) : Terminated(threads[i])
          /\ Len(threads) = calls[Len(calls)].ndeps + (IF self_dep.some THEN 1 ELSE 0)
          /\ calls[Len(calls)].started = Len(threads)
          /\ \A i \in 1..calls[Len(calls)].ndeps : threads[i].dep = deps[i]
          /\ self_dep.some => threads[Len(threads)].dep = self_dep.dep
          /\ out[Len(out)].kind = "complete"
    /\ \A m, n \in 1..Len(out) : (out[m].kind = "complete" /\ out[n].by # 0) => n < m

\* a call that returned True after two workers, each of which printed
C2_Witness ==
    /\ ReturnedTrue
    /\ Len(threads) = 2
    /\ \A i \in 1..2 : LinesBy(i, Comparisons \cup Failures) # {}

\* the resolver failures of C3: non-success status, not a list, empty list
FailedKinds == {"http_error", "object", "empty"}

\* pin contains '.' or 'v'
TagBased(d) == \E k \in 1..Len(d.tag) : d.tag[k] = "." \/ d.tag[k] = "v"

\* the first n characters of pin and resolved agree
AgreeOn(pin, resolved, n) == \A k \in 1..n : pin[k] = resolved[k]

\* the one line a worker owes for dependency d resolved to the non-empty v
Expected(d, v, i) ==
    IF TagBased(d)
    THEN IF d.tag = v THEN Line("up_to_date", i, d.name, <<>>, v)
         ELSE Line("update", i, d.name, d.tag, v)
    ELSE LET n == IF Len(d.tag) < Len(v) THEN Len(d.tag) ELSE Len(v)
         IN  IF AgreeOn(d.tag, v, n)
             THEN Line("up_to_date", i, d.name, <<>>, SubSeq(v, 1, n))
             ELSE Line("update", i, d.name, SubSeq(d.tag, 1, n), SubSeq(v, 1, n))

\* C3: in any batch and any interleaving, a worker whose resolver failed (non-success
\* status, not a list, empty list) ends having printed one failure line and no
\* comparison line, and every worker whose resolution succeeded ends having printed
\* exactly its own correct comparison line, whatever happened to the others.
C3_Isolation ==
    \A i \in 1..Len(threads) :
        LET t == threads[i] IN
        /\ (t.st \in {"fetched", "done", "raised"} /\ t.resp.kind \in FailedKinds) =>
              /\ LinesBy(i, Comparisons) = {}
              /\ t.st # "raised"
              /\ t.st = "done" =>
                    /\ Cardinality(LinesBy(i, Failures)) = 1
                    /\ \A n \in LinesBy(i, Failures) :
                          out[n].kind = (IF TagBased(t.dep) THEN "failed_release"
                                         ELSE "failed_commit")
        /\ (t.st \in {"fetched", "done", "raised"} /\ t.resp.kind = "value" /\ t.resp.v # <<>>) =>
              /\ LinesBy(i, Failures) = {}
              /\ t.st # "raised"
              /\ t.st = "done" =>
                    /\ Cardinality(LinesBy(i, Comparisons)) = 1
                    /\ \A n \in LinesBy(i, Comparisons) : out[n] = Expected(t.dep, t.resp.v, i)
        /\ (ReturnedTrue /\ t.resp.kind \in FailedKinds \cup {"value"}) => t.st = "done"

\* a finished batch of two: the first worker's resolver failed, the second one reported
C3_Witness ==
    /\ ReturnedTrue
    /\ Len(threads) = 2
    /\ threads[1].resp.kind \in FailedKinds
    /\ LinesBy(1, Failures) # {}
    /\ threads[2].resp.kind = "value"
    /\ LinesBy(2, Comparisons) # {}

\* C4: check_for_updates never raises and no exception escapes a worker.
C4_NeverRaises ==
    /\ \A k \in 1..Len(calls) : calls[k].ret # "raised"
    /\ \A i \in 1..Len(threads) : threads[i].st # "raised"

\* C5: without the networking library, check_for_updates returns False, starts no
\* worker and issues no request, whatever the dependency list.
C5_NoRequestsModule ==
    ~requests =>
        /\ \A k \in 1..Len(calls) : calls[k].ret = "false" /\ calls[k].started = 0
        /\ threads = <<>>
        /\ net = <<>>
        /\ pc = "idle"

\* a call made without the library, with a dependency declared
C5_Witness ==
    /\ ~requests
    /\ calls # <<>>
    /\ calls[Len(calls)].ndeps >= 1
    /\ calls[Len(calls)].ret = "false"

\* C7: a worker whose pin contains '.' or 'v' calls the tag resolver and never the
\* commit resolver, a worker whose pin contains neither calls the commit resolver and
\* never the tag resolver, and every worker makes exactly one resolver call (one
\* request, no retry), for declared dependencies and the self-dependency alike.
C7_OneResolver ==
    \A i \in 1..Len(threads) :
        LET t == threads[i] IN
        /\ Cardinality(RequestsBy(i)) = (IF t.st \in {"created", "started"} THEN 0 ELSE 1)
        /\ \A n \in RequestsBy(i) :
              /\ net[n].url.repo = t.dep.repo
              /\ net[n].url.endpoint = (IF TagBased(t.dep) THEN "tags" ELSE "commits")
        /\ LinesBy(i, {"no_tags", "failed_release"}) # {} => TagBased(t.dep)
        /\ LinesBy(i, {"no_commits", "failed_commit"}) # {} => ~TagBased(t.dep)

\* a finished batch: a commit-pinned declared dependency and a tag-pinned
\* self-dependency, each with its one request
C7_Witness ==
    /\ ReturnedTrue
    /\ Len(threads) = 2
    /\ self_dep.some
    /\ ~TagBased(threads[1].dep) /\ TagBased(threads[2].dep)
    /\ \E n \in RequestsBy(1) : net[n].url.endpoint = "commits"
    /\ \E n \in RequestsBy(2) : net[n].url.endpoint = "tags"

ShorterLen(a, b) == IF Len(a) < Len(b) THEN Len(a) ELSE Len(b)

\* the worker's resolution succeeded with the non-empty v and the worker has ended
Resolved(t) == t.resp.kind = "value" /\ t.resp.v # <<>> /\ Terminated(t)

\* C8: a commit-based worker whose resolution succeeded reports 'up to date' exactly
\* when pin and resolved commit agree on their first min(len(pin), len(resolved))
\* characters, and 'Update available' otherwise.
C8_CommitPrefix ==
    \A i \in 1..Len(threads) :
        LET t == threads[i] IN
        (~TagBased(t.dep) /\ Resolved(t)) =>
            /\ t.st = "done"
            /\ Cardinality(LinesBy(i, Comparisons)) = 1
            /\ \A n \in LinesBy(i, Comparisons) :
                  out[n].kind = "up_to_date" <=>
                      AgreeOn(t.dep.tag, t.resp.v, ShorterLen(t.dep.tag, t.resp.v))

\* an abbreviated pin, a proper prefix of the resolved sha, reported up to date
C8_Witness ==
    \E i \in 1..Len(threads) :
        /\ ~TagBased(threads[i].dep) /\ Resolved(threads[i])
        /\ threads[i].dep.tag # <<>>
        /\ Len(threads[i].dep.tag) < Len(threads[i].resp.v)
        /\ \E n \in LinesBy(i, {"up_to_date"}) : out[n].latest = threads[i].dep.tag

\* C9: a tag-based worker whose resolution succeeded reports 'up to date' exactly when
\* pin and resolved tag are the same string, and otherwise 'Update available for
\* <name>: <pin> -> <resolved tag>' with both strings whole.
C9_TagExact ==
    \A i \in 1..Len(threads) :
        LET t == threads[i] IN
        (TagBased(t.dep) /\ Resolved(t)) =>
            /\ t.st = "done"
            /\ Cardinality(LinesBy(i, Comparisons)) = 1
            /\ \A n \in LinesBy(i, Comparisons) :
                  IF t.dep.tag = t.resp.v
                  THEN out[n].kind = "up_to_date" /\ out[n].latest = t.resp.v
                  ELSE /\ out[n].kind = "update"
                       /\ out[n].what = t.dep.name
                       /\ out[n].current = t.dep.tag
                       /\ out[n].latest = t.resp.v

\* a pin that is a proper prefix of the resolved tag, reported as an update
C9_Witness ==
    \E i \in 1..Len(threads) :
        /\ TagBased(threads[i].dep) /\ Resolved(threads[i])
        /\ Len(threads[i].dep.tag) < Len(threads[i].resp.v)
        /\ SubSeq(threads[i].resp.v, 1, Len(threads[i].dep.tag)) = threads[i].dep.tag
        /\ LinesBy(i, {"update"}) # {}

RECURSIVE UpToQuote(_)
\* the characters of s before its first double quote
UpToQuote(s) ==
    IF s = <<>> \/ Head(s) = "\"" THEN <<>> ELSE <<Head(s)>> \o UpToQuote(Tail(s))

RECURSIVE LTrim(_)
LTrim(s) == IF s # <<>> /\ Head(s) \in Whitespace THEN LTrim(Tail(s)) ELSE s

RECURSIVE RTrim(_)
RTrim(s) ==
    IF s # <<>> /\ s[Len(s)] \in Whitespace THEN RTrim(SubSeq(s, 1, Len(s) - 1)) ELSE s

\* s without its first n characters
Drop(s, n) == [k \in 1..(IF Len(s) > n THEN Len(s) - n ELSE 0) |-> s[k + n]]

\* the probe as claimed: no marker, no dependency; else the text that starts `skip`
\* characters after the marker, up to the next double quote, trimmed; empty, no
\* dependency; else the geobuild dependency pinned to it
ProbeClaim(text, skip) ==
    IF ~HasSub(text, Marker) THEN NoDep
    ELSE LET pin == RTrim(LTrim(UpToQuote(Drop(text, Index(text, Marker) + Len(Marker) + skip))))
         IN  IF pin = <<>> THEN NoDep
             ELSE SomeDep(CPMDep("geobuild", "https://github.com/dankmeme01/geobuild", pin))

\* the first call got as far as _make_self_dependency and could read the file
Probed == calls # <<>> /\ requests /\ cmake_file.exists

\* C10 as stated: the pin is the text that follows the marker itself.
C10_Original == Probed => self_dep = ProbeClaim(cmake_file.text, 0)

\* C10, amended: the probe returns absent when the text has no marker; otherwise it
\* skips the one character that follows the marker (the '@' of the example), takes the
\* text up to the next double quote (or to the end), trims it, returns absent if that
\* is empty, and otherwise returns the dependency 'geobuild' with the canonical URL
\* and that string as pin.
C10_Probe == Probed => self_dep = ProbeClaim(cmake_file.text, 1)

\* the marker, '@', a pin with a blank after it, and the closing quote
C10_Witness ==
    /\ Probed
    /\ cmake_file.text = <<"\"">> \o Marker \o <<"@", "v", " ", "\"">>
    /\ self_dep.some
    /\ self_dep.dep.tag = <<"v">>
    /\ self_dep.dep.name = "geobuild"

\* the first call found no declared dependency and the networking library
EmptyFirstCall == calls # <<>> /\ calls[1].ndeps = 0 /\ requests

\* the requests the first call owes: one when the file holds a geobuild pin
OwedRequests == IF cmake_file.exists /\ ProbeClaim(cmake_file.text, 1).some THEN 1 ELSE 0

\* C6 as stated, for a call that has returned: with no declared dependency, the first
\* call (networking available) returns True, has performed zero requests and has
\* printed the elapsed-time line.
C6_Original ==
    (EmptyFirstCall /\ calls[1].ret \in {"true", "false"}) =>
        /\ calls[1].ret = "true"
        /\ RequestsOf(1) = {}
        /\ \E n \in 1..Len(out) : out[n].kind = "complete"

\* C6, amended: with no declared dependency, the first call (networking available)
\* never returns False; it raises exactly when CMakeLists.txt cannot be read, having
\* made no request; otherwise it returns True with the elapsed-time line as its last
\* print, having made no request when the self-version probe finds no pin and exactly
\* one request, to the geobuild repository, when it finds one.
C6_EmptyDeps ==
    EmptyFirstCall =>
        /\ calls[1].ret # "false"
        /\ calls[1].ret = "raised" <=> ~cmake_file.exists
        /\ Cardinality(RequestsOf(1)) <= OwedRequests
        /\ \A n \in RequestsOf(1) : net[n].url.repo = GeobuildRepo
        /\ calls[1].ret = "true" =>
              /\ Cardinality(RequestsOf(1)) = OwedRequests
              /\ calls[1].started = OwedRequests
              /\ \E n \in 1..Len(out) : out[n].kind = "complete"
              /\ Len(calls) = 1 => out[Len(out)].kind = "complete"

\* a first call that returned True without any request although the marker is there
C6_Witness ==
    /\ EmptyFirstCall
    /\ calls[1].ret = "true"
    /\ HasSub(cmake_file.text, Marker)
    /\ net = <<>>
    /\ out[Len(out)].kind = "complete"

\* finalize call k invoked check_for_updates
Invoked(k) == finlog[k].call # 0

\* finalize call k invoked check_for_updates and that call has returned True
InvokedTrue(k) == Invoked(k) /\ calls[finlog[k].call].ret = "true"

\* C11: finalize invokes check_for_updates only on a Build not yet finalized, with the
\* GEOBUILD_UPDATE_CHECK flag truthy and the last-update file missing or older than 24
\* hours; the file is created or refreshed only when that invocation returned True, and
\* is otherwise (flag off, cooldown not elapsed, check returned False or raised,
\* repeated finalize) left as it was.
C11_Finalize ==
    /\ \A k \in 1..Len(finlog) :
          Invoked(k) =>
              /\ finlog[k].first
              /\ finlog[k].flag
              /\ ~finlog[k].stamp.exists \/ finlog[k].at - finlog[k].stamp.mtime > 24 * 3600
              /\ \A j \in 1..Len(finlog) : Invoked(j) => j = k
    /\ finlog = <<>> => stamp.touched = 0
    /\ finlog # <<>> =>
          IF \E k \in 1..Len(finlog) : InvokedTrue(k)
          THEN /\ stamp.exists
               /\ stamp.touched = 1
               /\ \A k \in 1..Len(finlog) : InvokedTrue(k) => stamp.mtime >= finlog[k].at
          ELSE stamp = finlog[1].stamp

\* a stale file refreshed by the check of a first finalize, then a second finalize
C11_Witness ==
    /\ Len(finlog) = 2
    /\ finlog[1].stamp.exists
    /\ InvokedTrue(1)
    /\ calls[finlog[1].call].started >= 1
    /\ ~Invoked(2)
    /\ stamp.touched = 1
    /\ stamp.mtime > 24 * 3600

\* C12: a call that returns False for want of the networking library leaves
\* checked_updates unset; a call that proceeds sets it before any worker is created or
\* started; so checked_updates is true in every state in which a worker exists.
C12_GuardBeforeWorkers ==
    /\ ~requests => ~checked_updates
    /\ threads # <<>> => checked_updates
    /\ \A k \in 1..Len(calls) : calls[k].ret \in {"running", "true", "raised"} => checked_updates
    /\ checked_updates => \E k \in 1..Len(calls) : calls[k].ret # "false"

\* workers created, none started yet, and the flag already set
C12_Witness ==
    /\ pc = "start"
    /\ Len(threads) = 2
    /\ \A i \in 1..Len(threads) : threads[i].st = "created"
    /\ checked_updates

====
